---- MODULE Spec2Model ----
(***************************************************************************)
(* Model of src/weather_tool_agent_example/agent.py: the mock tools        *)
(* (get_weather, get_current_time), the import-time construction of the    *)
(* agent graph, session and runner, and the conversation driver            *)
(* (call_agent_async, run_conversation, the __main__ block).               *)
(*                                                                         *)
(* A Python str is a sequence of one-character strings; the fixed pieces   *)
(* of an f-string are single tokens of that sequence.  An optional value   *)
(* (None or a value) is a sequence of length 0 or 1.  A dict is a record.  *)
(***************************************************************************)
EXTENDS Integers, Sequences, FiniteSets, TLC

\* ------------------------------------------------------------------ bounds
\* The largest number of space characters put into a city string.
MaxSpaces == 1
\* The largest number of events the runner yields in one turn.
MaxEvents == 3

VARIABLES
    \* --- tool calls (SpecTools, SpecLookup)
    word,              \* the city name the caller has in mind (lowercase letters)
    city,              \* the argument `city` of the tool call
    other,             \* a second spelling of the same name, as 0/1-sequence
    weather_ret,       \* outcome of get_weather(city), as 0/1-sequence
    other_ret,         \* outcome of get_weather(other), as 0/1-sequence
    time_ret,          \* outcome of get_current_time(city), as 0/1-sequence
    zone_answer,       \* what the host answered to ZoneInfo(...) in that call
    \* --- the program (Spec)
    pc,                \* position in the module's top-level code
    is_main,           \* __name__ == "__main__"
    greeting_agent,    \* 0/1-sequence: None or the agent
    farewell_agent,
    root_agent,
    stdout,            \* the set of operator-facing lines printed so far
    sessions,          \* session_service: the set of (app, user, session) keys
    runner,            \* 0/1-sequence: None or [agent |-> root_agent]
    started,           \* the queries whose call_agent_async has begun, in order
    printed,           \* the queries whose "<<< Agent Response" line is out
    events,            \* the events runner.run_async yields in this turn
    consumed,          \* how many of them the async for loop has taken
    final_response_text,   \* 0/1-sequence: the local of call_agent_async
    exc                \* 0/1-sequence: the exception caught by the __main__ block

toolVars == <<word, city, other, weather_ret, other_ret, time_ret, zone_answer>>
progVars == <<pc, is_main, greeting_agent, farewell_agent, root_agent, stdout,
              sessions, runner, started, printed, events, consumed,
              final_response_text, exc>>
vars == <<toolVars, progVars>>

None == <<>>
Some(x) == <<x>>

\* ================================================================== strings

UpperOf == [c \in {"n", "e", "w", "y", "o", "r", "k", "l", "d", "t", "p",
                   "a", "i", "s"} |->
              CASE c = "n" -> "N" [] c = "e" -> "E" [] c = "w" -> "W"
                [] c = "y" -> "Y" [] c = "o" -> "O" [] c = "r" -> "R"
                [] c = "k" -> "K" [] c = "l" -> "L" [] c = "d" -> "D"
                [] c = "t" -> "T" [] c = "p" -> "P" [] c = "a" -> "A"
                [] c = "i" -> "I" [] c = "s" -> "S"]

LowerLetters == DOMAIN UpperOf
UpperLetters == {UpperOf[c] : c \in LowerLetters}

\* str.lower() on one character: an uppercase letter becomes its lowercase
\* letter, every other character (space, tab, lowercase) is unchanged.
LowerChar(c) ==
    IF c \in UpperLetters
    THEN CHOOSE l \in LowerLetters : UpperOf[l] = c
    ELSE c

\* str.lower()
RECURSIVE lower(_)
lower(s) ==
    IF s = <<>> THEN <<>> ELSE <<LowerChar(Head(s))>> \o lower(Tail(s))

\* str.replace(" ", ""): every literal space goes, nothing else does.
RECURSIVE replace_space(_)
replace_space(s) ==
    IF s = <<>> THEN <<>>
    ELSE IF Head(s) = " " THEN replace_space(Tail(s))
    ELSE <<Head(s)>> \o replace_space(Tail(s))

\* The normalisation without its lower() step.
normalize_no_lower(c) == replace_space(c)
\* city.lower().replace(" ", "")
city_normalized(c) == replace_space(lower(c))

\* ============================================================ the two tools

mock_weather_db ==
    [k \in {<<"n", "e", "w", "y", "o", "r", "k">>,
            <<"l", "o", "n", "d", "o", "n">>,
            <<"t", "o", "k", "y", "o">>} |->
       [status |-> "success",
        report |->
          CASE k = <<"n", "e", "w", "y", "o", "r", "k">> ->
                 <<"The weather in New York is sunny with a temperature of 25 degrees Celsius.">>
            [] k = <<"l", "o", "n", "d", "o", "n">> ->
                 <<"It's cloudy in London with a temperature of 15° Celsius.">>
            [] k = <<"t", "o", "k", "y", "o">> ->
                 <<"Tokyo is experiencing light rain and a temperature of 18°C.">>]]

\* The outcome of a call: a returned dict, or an exception that escapes.
Return(d) == [kind |-> "return", value |-> d]
Raise(e) == [kind |-> "raise", error |-> e]

\* get_weather building its message from the normalised key.
get_weather_error_normalized(c) ==
    IF city_normalized(c) \in DOMAIN mock_weather_db
    THEN Return(mock_weather_db[city_normalized(c)])
    ELSE Return([status |-> "error",
                 error_message |->
                   <<"Weather information for '">> \o city_normalized(c)
                     \o <<"' is not available.">>])

\* get_weather putting its error message under the 'report' key.
get_weather_error_in_report(c) ==
    IF city_normalized(c) \in DOMAIN mock_weather_db
    THEN Return(mock_weather_db[city_normalized(c)])
    ELSE Return([status |-> "error",
                 report |->
                   <<"Weather information for '">> \o c
                     \o <<"' is not available.">>])

get_weather(c) ==
    IF city_normalized(c) \in DOMAIN mock_weather_db
    THEN Return(mock_weather_db[city_normalized(c)])
    ELSE Return([status |-> "error",
                 error_message |->
                   <<"Weather information for '">> \o c
                     \o <<"' is not available.">>])

\* What the environment answers to ZoneInfo(tz_identifier): the zone, or
\* ZoneInfoNotFoundError when the host has no time-zone data for it.
ZoneOutcomes == {"found", "ZoneInfoNotFoundError"}

\* The instants datetime.datetime.now can fall on (UTC wall clock).
Instants == {"2026-01-15 12:00:00", "2026-07-15 12:00:00"}

\* now.strftime('%Y-%m-%d %H:%M:%S %Z%z') of instant t in zone tz.
strftime(tz, t) ==
    CASE tz = "America/New_York" /\ t = "2026-01-15 12:00:00"
           -> "2026-01-15 07:00:00 EST-0500"
      [] tz = "America/New_York" /\ t = "2026-07-15 12:00:00"
           -> "2026-07-15 08:00:00 EDT-0400"
      [] tz = "Europe/London" /\ t = "2026-01-15 12:00:00"
           -> "2026-01-15 12:00:00 GMT+0000"
      [] tz = "Europe/London" /\ t = "2026-07-15 12:00:00"
           -> "2026-07-15 13:00:00 BST+0100"

\* The body of the try block without its except clause.
time_try_uncaught(c, tz_identifier, zone, t) ==
    IF zone = "found"
    THEN Return([status |-> "success",
                 report |-> <<"The current time in ">> \o c
                              \o <<" is ", strftime(tz_identifier, t), ".">>])
    ELSE Raise(zone)

\* The try block of get_current_time, lines 89-103.
time_try(c, tz_identifier, zone, t) ==
    IF zone = "found"
    THEN Return([status |-> "success",
                 report |-> <<"The current time in ">> \o c
                              \o <<" is ", strftime(tz_identifier, t), ".">>])
    ELSE Return([status |-> "error",
                 error_message |->
                   <<"Could not determine time for '">> \o c
                     \o <<"': ", "'No time zone found with key " \o tz_identifier \o "'">>])

get_current_time(c, zone, t) ==
    IF city_normalized(c) = <<"n", "e", "w", "y", "o", "r", "k">>
    THEN time_try(c, "America/New_York", zone, t)
    ELSE IF city_normalized(c) = <<"l", "o", "n", "d", "o", "n">>
    THEN time_try(c, "Europe/London", zone, t)
    ELSE Return([status |-> "error",
                 error_message |->
                   <<"Sorry, I don't have the current time for '">> \o c
                     \o <<"'.">>])

\* ------------------------------------------------- the city strings tried

\* The names a caller asks about: the three of the weather table, one that
\* is in no table, one with a tab inside (not a literal space), the empty one.
BaseWords ==
    {<<"n", "e", "w", "y", "o", "r", "k">>,
     <<"l", "o", "n", "d", "o", "n">>,
     <<"t", "o", "k", "y", "o">>,
     <<"p", "a", "r", "i", "s">>,
     <<"t", "o", "\t", "k", "y", "o">>,
     <<>>}

\* The letter cases tried: all lower, all upper, capitalised, the initials
\* of "New York", and the two alternating patterns.
CaseMasks(w) ==
    LET P == 1..Len(w)
    IN  {{}, P, P \cap {1}, P \cap {1, 4},
         {i \in P : i % 2 = 1}, {i \in P : i % 2 = 0}}

Recase(w, mask) ==
    [i \in 1..Len(w) |->
       IF i \in mask /\ w[i] \in LowerLetters THEN UpperOf[w[i]] ELSE w[i]]

\* gaps[i] spaces go before character i+1 (gaps[Len(w)] at the end).
GapChoices(w) ==
    {g \in [0..Len(w) -> 0..MaxSpaces] :
       LET RECURSIVE Sum(_)
           Sum(i) == IF i < 0 THEN 0 ELSE g[i] + Sum(i - 1)
       IN  Sum(Len(w)) <= MaxSpaces}

RECURSIVE Spaces(_)
Spaces(n) == IF n = 0 THEN <<>> ELSE <<" ">> \o Spaces(n - 1)

RECURSIVE Respace(_, _, _)
Respace(w, g, i) ==
    IF i > Len(w) THEN <<>>
    ELSE <<w[i]>> \o Spaces(g[i]) \o Respace(w, g, i + 1)

\* Every spelling of w tried: w recased, with up to MaxSpaces spaces put in.
Spellings(w) ==
    {Spaces(g[0]) \o Respace(Recase(w, m), g, 1) :
       m \in CaseMasks(w), g \in GapChoices(w)}

InitProgIdle ==
    /\ pc = "idle"
    /\ is_main = FALSE
    /\ greeting_agent = None
    /\ farewell_agent = None
    /\ root_agent = None
    /\ stdout = {}
    /\ sessions = {}
    /\ runner = None
    /\ started = <<>>
    /\ printed = <<>>
    /\ events = <<>>
    /\ consumed = 0
    /\ final_response_text = None
    /\ exc = None

InitTools ==
    /\ word \in BaseWords
    /\ city \in Spellings(word)
    /\ other = None
    /\ weather_ret = None
    /\ other_ret = None
    /\ time_ret = None
    /\ zone_answer = None
    /\ InitProgIdle

\* get_weather(city) is called.
CallGetWeather ==
    /\ weather_ret = None
    /\ weather_ret' = Some(get_weather(city))
    /\ UNCHANGED <<word, city, other, other_ret, time_ret, zone_answer, progVars>>

\* get_current_time(city) is called; the host answers the zone lookup and
\* the clock read.
CallGetCurrentTime ==
    /\ time_ret = None
    /\ \E zone \in ZoneOutcomes, t \in Instants :
         /\ time_ret' = Some(get_current_time(city, zone, t))
         /\ zone_answer' = Some(zone)
    /\ UNCHANGED <<word, city, other, other_ret, weather_ret, progVars>>

\* get_weather is called again, with another spelling of the same name.
CallGetWeatherAgain ==
    /\ weather_ret # None
    /\ other = None
    /\ \E o \in Spellings(word) :
         /\ other' = Some(o)
         /\ other_ret' = Some(get_weather(o))
    /\ UNCHANGED <<word, city, weather_ret, time_ret, zone_answer, progVars>>

NextTools == CallGetWeather \/ CallGetCurrentTime
SpecTools == InitTools /\ [][NextTools]_vars

NextLookup == CallGetWeather \/ CallGetWeatherAgain
SpecLookup == InitTools /\ [][NextLookup]_vars

\* ============================================================== the program

APP_NAME == "weather_tutorial_app"
USER_ID == "user_1"
SESSION_ID == "session_001"

\* The three queries of run_conversation, in the order it awaits them.
Queries ==
    <<"What is the weather like in London?",
      "How about Paris?",
      "Tell me the weather in New York">>

\* Line 162 with `or` for `and`.
root_guard_or(g, f) == g # None \/ f # None

\* The condition of line 162; get_weather is defined at line 22, so
\* 'get_weather' in globals() is true.
root_guard(g, f) == g # None /\ f # None

\* ------------------------------------------------------------------ events
\* What the loop reads of an event: is_final_response(), content (None, or
\* its parts: the texts), actions.escalate, error_message.
FinalEvents ==
    [final : {TRUE},
     content : {None, Some(<<>>), Some(<<"hello", "world">>)},
     escalate : BOOLEAN,
     error_message : {None, Some("boom")}]

NonFinalEvents ==
    {[final |-> FALSE, content |-> None, escalate |-> FALSE,
      error_message |-> None],
     [final |-> FALSE, content |-> Some(<<"partial">>), escalate |-> TRUE,
      error_message |-> Some("boom")]}

Events == FinalEvents \cup NonFinalEvents

RECURSIVE SeqsUpTo(_, _)
SeqsUpTo(S, n) ==
    IF n = 0 THEN {<<>>}
    ELSE LET shorter == SeqsUpTo(S, n - 1)
         IN  shorter \cup {Append(q, x) : q \in {r \in shorter : Len(r) = n - 1}, x \in S}

EventStreams == SeqsUpTo(Events, MaxEvents)

DefaultResponse == <<"Agent did not produce a final response.">>

\* Lines 227-231 with the two tests in the other order.
final_text_escalation_first(e, cur) ==
    IF e.escalate
    THEN <<"Agent escalated: ",
           IF e.error_message # None THEN e.error_message[1]
           ELSE "No specific message.">>
    ELSE IF e.content # None /\ e.content[1] # <<>>
    THEN <<e.content[1][1]>>
    ELSE cur

\* Lines 227-231: the text after a final event e, cur being the text before.
final_text(e, cur) ==
    IF e.content # None /\ e.content[1] # <<>>
    THEN <<e.content[1][1]>>
    ELSE IF e.escalate
    THEN <<"Agent escalated: ",
           IF e.error_message # None THEN e.error_message[1]
           ELSE "No specific message.">>
    ELSE cur

\* The loop without its break.
loop_never_breaks(e) == FALSE

\* Line 233: the loop leaves on a final event.
loop_breaks(e) == e.final

\* The calls scheduled without being awaited one after the other.
next_call_not_awaited == pc \in {"call", "loop", "print"}

\* Lines 240-242: each call_agent_async is awaited, so the next one begins
\* only when the previous coroutine has returned.
next_call_may_begin == pc = "call"

\* asyncio.run(run_conversation()) outside any try.
main_without_try == FALSE

\* Lines 247-250: run_conversation runs inside try / except Exception.
main_catches_exception == TRUE

InitToolsIdle ==
    /\ word = <<>>
    /\ city = <<>>
    /\ other = None
    /\ weather_ret = None
    /\ other_ret = None
    /\ time_ret = None
    /\ zone_answer = None

Init ==
    /\ InitToolsIdle
    /\ pc = "greeting"
    /\ is_main \in BOOLEAN
    /\ greeting_agent = None
    /\ farewell_agent = None
    /\ root_agent = None
    /\ stdout = {}
    /\ sessions = {}
    /\ runner = None
    /\ started = <<>>
    /\ printed = <<>>
    /\ events = <<>>
    /\ consumed = 0
    /\ final_response_text = None
    /\ exc = None

convVars == <<started, printed, events, consumed, final_response_text, exc>>

\* Lines 127-141: Agent(...) for the greeting agent succeeds or raises; the
\* except clause prints and goes on.
CreateGreetingAgent ==
    /\ pc = "greeting"
    /\ \E ok \in BOOLEAN :
         IF ok
         THEN /\ greeting_agent' = Some("greeting_agent")
              /\ stdout' = stdout \cup {"Greeting agent created successfully."}
         ELSE /\ greeting_agent' = None
              /\ stdout' = stdout \cup {"Error creating greeting agent"}
    /\ pc' = "farewell"
    /\ UNCHANGED <<toolVars, is_main, farewell_agent, root_agent, sessions,
                   runner, convVars>>

\* Lines 144-157.
CreateFarewellAgent ==
    /\ pc = "farewell"
    /\ \E ok \in BOOLEAN :
         IF ok
         THEN /\ farewell_agent' = Some("farewell_agent")
              /\ stdout' = stdout \cup {"Farewell agent created successfully."}
         ELSE /\ farewell_agent' = None
              /\ stdout' = stdout \cup {"Error creating farewell agent"}
    /\ pc' = "root"
    /\ UNCHANGED <<toolVars, is_main, greeting_agent, root_agent, sessions,
                   runner, convVars>>

\* Lines 159-184.  Agent(...) for the root agent is not inside a try: when
\* it raises, the module's execution ends with that exception.
CreateRootAgent ==
    /\ pc = "root"
    /\ IF root_guard(greeting_agent, farewell_agent)
       THEN \E ok \in BOOLEAN :
              IF ok
              THEN /\ root_agent' =
                        Some([name |-> "weather_agent_v2",
                              sub_agents |-> <<greeting_agent, farewell_agent>>])
                   /\ stdout' = stdout \cup {"Root Agent created"}
                   /\ pc' = "session"
              ELSE /\ root_agent' = None
                   /\ stdout' = stdout
                   /\ pc' = "crashed"
       ELSE /\ root_agent' = None
            /\ stdout' = stdout
                 \cup {"Cannot create root agent because one or more sub-agents failed to initialize or 'get_weather' tool is missing."}
                 \cup (IF greeting_agent = None
                       THEN {" - Greeting Agent is missing."} ELSE {})
                 \cup (IF farewell_agent = None
                       THEN {" - Farewell Agent is missing."} ELSE {})
            /\ pc' = "session"
    /\ UNCHANGED <<toolVars, is_main, greeting_agent, farewell_agent, sessions,
                   runner, convVars>>

\* Lines 191-202: the session is created whatever root_agent is.
CreateSession ==
    /\ pc = "session"
    /\ sessions' = sessions \cup {<<APP_NAME, USER_ID, SESSION_ID>>}
    /\ stdout' = stdout \cup {"Session created"}
    /\ pc' = "runner"
    /\ UNCHANGED <<toolVars, is_main, greeting_agent, farewell_agent,
                   root_agent, runner, convVars>>

\* Lines 204-208: Runner(agent=root_agent, ...).  With root_agent None the
\* library either stores the None or raises; both are possible outcomes.
CreateRunner ==
    /\ pc = "runner"
    /\ \/ /\ runner' = Some([agent |-> root_agent, app_name |-> APP_NAME])
          /\ pc' = "runner_print"
       \/ /\ root_agent = None
          /\ runner' = None
          /\ pc' = "crashed"
    /\ UNCHANGED <<toolVars, is_main, greeting_agent, farewell_agent,
                   root_agent, stdout, sessions, convVars>>

\* Line 209: runner.agent.name raises AttributeError when the agent is None.
PrintRunner ==
    /\ pc = "runner_print"
    /\ IF runner[1].agent = None
       THEN /\ pc' = "crashed"
            /\ stdout' = stdout
       ELSE /\ pc' = "main"
            /\ stdout' = stdout \cup {"Runner created"}
    /\ UNCHANGED <<toolVars, is_main, greeting_agent, farewell_agent,
                   root_agent, sessions, runner, convVars>>

\* Line 246: only a run as a script enters run_conversation.
EnterMain ==
    /\ pc = "main"
    /\ pc' = IF is_main THEN "call" ELSE "done"
    /\ UNCHANGED <<toolVars, is_main, greeting_agent, farewell_agent,
                   root_agent, stdout, sessions, runner, convVars>>

\* Lines 212-223: call_agent_async begins for the next query; the runner is
\* asked for this turn's events on the one session.
StartTurn ==
    /\ next_call_may_begin
    /\ Len(started) < Len(Queries)
    /\ started' = Append(started,
                         [query |-> Queries[Len(started) + 1],
                          app_name |-> runner[1].app_name,
                          user_id |-> USER_ID,
                          session_id |-> SESSION_ID])
    /\ final_response_text' = Some(DefaultResponse)
    /\ \E evs \in EventStreams : events' = evs
    /\ consumed' = 0
    /\ pc' = "loop"
    /\ UNCHANGED <<toolVars, is_main, greeting_agent, farewell_agent,
                   root_agent, stdout, sessions, runner, printed, exc>>

\* Lines 223-233: one iteration of the async for loop.
ConsumeEvent ==
    /\ pc = "loop"
    /\ consumed < Len(events)
    /\ LET e == events[consumed + 1]
       IN  /\ consumed' = consumed + 1
           /\ final_response_text' =
                IF e.final
                THEN Some(final_text(e, final_response_text[1]))
                ELSE final_response_text
           /\ pc' = IF loop_breaks(e) THEN "print" ELSE "loop"
    /\ UNCHANGED <<toolVars, is_main, greeting_agent, farewell_agent,
                   root_agent, stdout, sessions, runner, started, printed,
                   events, exc>>

\* Line 223: the generator is exhausted and the loop ends.
EndOfEvents ==
    /\ pc = "loop"
    /\ consumed = Len(events)
    /\ pc' = "print"
    /\ UNCHANGED <<toolVars, is_main, greeting_agent, farewell_agent,
                   root_agent, stdout, sessions, runner, convVars>>

\* Line 223 raising: runner.run_async fails with an Exception instead of
\* yielding.  It leaves call_agent_async and run_conversation and reaches
\* the __main__ block, lines 247-250.
RunnerFault ==
    /\ pc = "loop"
    /\ exc' = Some([type |-> "Exception", turn |-> Len(started)])
    /\ IF main_catches_exception
       THEN /\ stdout' = stdout
                 \cup {"An error occurred during the async execution in agent.py"}
            /\ pc' = "done"
       ELSE /\ stdout' = stdout
            /\ pc' = "crashed"
    /\ UNCHANGED <<toolVars, is_main, greeting_agent, farewell_agent,
                   root_agent, sessions, runner, started, printed, events,
                   consumed, final_response_text>>

\* Line 235 prints final_response_text; call_agent_async then returns to
\* run_conversation (lines 240-242) and its locals are gone.
PrintResponse ==
    /\ pc = "print"
    /\ printed' = Append(printed, started[Len(started)].query)
    /\ events' = <<>>
    /\ consumed' = 0
    /\ final_response_text' = None
    /\ pc' = IF Len(started) < Len(Queries) THEN "call" ELSE "done"
    /\ UNCHANGED <<toolVars, is_main, greeting_agent, farewell_agent,
                   root_agent, stdout, sessions, runner, started, exc>>

Next ==
    \/ CreateGreetingAgent
    \/ CreateFarewellAgent
    \/ CreateRootAgent
    \/ CreateSession
    \/ CreateRunner
    \/ PrintRunner
    \/ EnterMain
    \/ StartTurn
    \/ ConsumeEvent
    \/ EndOfEvents
    \/ RunnerFault
    \/ PrintResponse

Spec == Init /\ [][Next]_vars

\* --------------------------------------------------- properties of the tools

NewYork == <<"n", "e", "w", "y", "o", "r", "k">>
London == <<"l", "o", "n", "d", "o", "n">>
Tokyo == <<"t", "o", "k", "y", "o">>

\* The documented dict shape (lines 27-29): status and exactly one payload key.
IsToolResult(r) ==
    /\ r.kind = "return"
    /\ r.value.status \in {"success", "error"}
    /\ r.value.status = "success" => DOMAIN r.value = {"status", "report"}
    /\ r.value.status = "error" => DOMAIN r.value = {"status", "error_message"}

\* C1: whatever the city string, what get_weather and get_current_time
\* return has status 'success' or 'error' and exactly one payload: 'report'
\* (and no 'error_message') on success, 'error_message' (and no 'report')
\* on error.
C1_ResultShape ==
    /\ weather_ret # None => IsToolResult(weather_ret[1])
    /\ time_ret # None => IsToolResult(time_ret[1])

C1_Witness ==
    /\ weather_ret # None /\ time_ret # None
    /\ weather_ret[1].kind = "return" /\ time_ret[1].kind = "return"
    /\ weather_ret[1].value.status = "error"
    /\ time_ret[1].value.status = "error"
    /\ word = <<"p", "a", "r", "i", "s">>

\* C2: two spellings of a registered city (newyork, london, tokyo) that
\* differ only in letter case and in space characters get the same Success
\* payload from get_weather.
C2_CaseSpaceInsensitive ==
    (weather_ret # None /\ other_ret # None /\ word \in {NewYork, London, Tokyo})
        => /\ other_ret = weather_ret
           /\ weather_ret[1].kind = "return"
           /\ weather_ret[1].value.status = "success"

C2_Witness ==
    /\ weather_ret # None /\ other_ret # None
    /\ word = NewYork
    /\ city = NewYork
    /\ other[1] = <<"N", "e", "w", " ", "Y", "o", "r", "k">>
    /\ other_ret = weather_ret
    /\ weather_ret[1].value.status = "success"

\* C3: for a city whose normalised form is not in the weather table,
\* get_weather returns (never raises) the Error variant, with the message
\* "Weather information for '<city>' is not available." built from the
\* caller's own, un-normalised string.
C3_UnknownCityError ==
    (weather_ret # None /\ city_normalized(city) \notin DOMAIN mock_weather_db)
        => weather_ret[1] =
             Return([status |-> "error",
                     error_message |->
                       <<"Weather information for '">> \o city
                         \o <<"' is not available.">>])

C3_Witness ==
    /\ weather_ret # None
    /\ city = <<"P", "a", "r", "i", "s">>
    /\ weather_ret[1].kind = "return"
    /\ weather_ret[1].value.status = "error"
    /\ weather_ret[1].value.error_message[3] = "a"

\* C4: get_current_time never lets a fault escape; it returns Success only
\* for the two mapped cities (newyork, london) when the zone resolves, and
\* Error for every other city (Tokyo included) and whenever resolving the
\* zone fails.
C4_TimeNeverFaults ==
    time_ret # None =>
        /\ time_ret[1].kind = "return"
        /\ time_ret[1].value.status \in {"success", "error"}
        /\ time_ret[1].value.status = "success"
             <=> (word \in {NewYork, London} /\ zone_answer[1] = "found")

C4_Witness ==
    /\ time_ret # None
    /\ word = London
    /\ zone_answer[1] = "ZoneInfoNotFoundError"
    /\ time_ret[1].kind = "return"
    /\ time_ret[1].value.status = "error"

\* ------------------------------------------------- properties of the program

SubAgentMissing == greeting_agent = None \/ farewell_agent = None
PastRootAgent == pc \notin {"idle", "greeting", "farewell", "root"}

\* C5: the root agent exists only when both sub-agents were constructed; when
\* either construction failed, root_agent stays None and the operator is
\* told, each missing sub-agent being named.
C5_RootNeedsBothSubAgents ==
    /\ root_agent # None => (greeting_agent # None /\ farewell_agent # None)
    /\ (PastRootAgent /\ SubAgentMissing) =>
         /\ root_agent = None
         /\ "Cannot create root agent because one or more sub-agents failed to initialize or 'get_weather' tool is missing."
              \in stdout
         /\ greeting_agent = None => " - Greeting Agent is missing." \in stdout
         /\ farewell_agent = None => " - Farewell Agent is missing." \in stdout
         /\ greeting_agent # None => " - Greeting Agent is missing." \notin stdout
         /\ farewell_agent # None => " - Farewell Agent is missing." \notin stdout

C5_Witness ==
    /\ pc = "session"
    /\ greeting_agent # None
    /\ farewell_agent = None
    /\ root_agent = None
    /\ " - Farewell Agent is missing." \in stdout

\* C6: once a sub-agent failed to construct and the root agent is missing,
\* startup stops: no session is created, no runner is built around the
\* missing root agent, no turn is executed.
C6_StartupStopsOnConfigError ==
    (PastRootAgent /\ SubAgentMissing) =>
        /\ sessions = {}
        /\ runner = None
        /\ started = <<>>

\* The index of the first final event of a stream, 0 when it has none.
FirstFinal(evs) ==
    IF \E i \in 1..Len(evs) : evs[i].final
    THEN CHOOSE i \in 1..Len(evs) :
           evs[i].final /\ \A j \in 1..(i - 1) : ~evs[j].final
    ELSE 0

\* C7: within a turn the events are consumed in order up to the first final
\* event and no further: while the loop runs no consumed event was final,
\* when it has ended exactly the events up to the first final one (all of
\* them when none is final) were consumed, and the response is the one that
\* first final event gives.
C7_StopsAtFirstFinal ==
    /\ pc = "loop" =>
         /\ consumed <= Len(events)
         /\ \A i \in 1..consumed : ~events[i].final
    /\ pc = "print" =>
         /\ consumed = IF FirstFinal(events) = 0 THEN Len(events)
                       ELSE FirstFinal(events)
         /\ FirstFinal(events) # 0 =>
              final_response_text =
                Some(final_text(events[FirstFinal(events)], DefaultResponse))

C7_Witness ==
    /\ pc = "print"
    /\ Len(events) = 3
    /\ ~events[1].final
    /\ events[2].final /\ events[2].content = None /\ events[2].escalate
    /\ events[3].final /\ events[3].content = Some(<<"hello", "world">>)
    /\ consumed = 2
    /\ final_response_text[1][1] = "Agent escalated: "

\* C8: the queries are issued in their fixed order on the one session
\* (weather_tutorial_app, user_1, session_001), and a query is started only
\* when every earlier turn has ended and printed its response.
C8_TurnsNeverOverlap ==
    /\ Len(started) <= Len(Queries)
    /\ \A i \in 1..Len(started) :
         started[i] = [query |-> Queries[i],
                       app_name |-> "weather_tutorial_app",
                       user_id |-> "user_1",
                       session_id |-> "session_001"]
    /\ started # <<>> =>
         <<"weather_tutorial_app", "user_1", "session_001">> \in sessions
    /\ Len(printed) <= Len(started)
    /\ Len(started) <= Len(printed) + 1
    /\ \A i \in 1..Len(printed) : printed[i] = Queries[i]
    /\ pc \in {"loop", "print"} => Len(started) = Len(printed) + 1
    /\ pc = "call" => Len(started) = Len(printed)

C8_Witness ==
    /\ pc = "loop"
    /\ Len(started) = 3
    /\ Len(printed) = 2
    /\ consumed = 1

\* C9: a fault raised while a turn executes is caught by the outermost
\* driver and reported; the program does not end on an unhandled exception,
\* the faulting turn prints no response and no later query is run.
C9_FaultCaughtAtDriver ==
    exc # None =>
        /\ pc = "done"
        /\ "An error occurred during the async execution in agent.py" \in stdout
        /\ Len(started) = exc[1].turn
        /\ Len(printed) = exc[1].turn - 1

C9_Witness ==
    /\ exc # None
    /\ exc[1].turn = 2
    /\ pc = "done"
    /\ Len(started) = 2
    /\ Len(printed) = 1

HasParts(e) == e.content # None /\ Len(e.content[1]) > 0

\* C10: the response text of a turn is decided by the first final event
\* alone: its first content part's text when it has content parts; else
\* "Agent escalated: <error message, or 'No specific message.'>" when it
\* signals escalation; else, and when no event is final, the default
\* "Agent did not produce a final response.".
C10_ResponseText ==
    pc = "print" =>
        LET f == FirstFinal(events)
            t == final_response_text[1]
        IN  /\ f = 0 => t = <<"Agent did not produce a final response.">>
            /\ f # 0 =>
                 LET e == events[f]
                 IN  /\ HasParts(e) => t = <<e.content[1][1]>>
                     /\ (~HasParts(e) /\ e.escalate /\ e.error_message # None)
                          => t = <<"Agent escalated: ", e.error_message[1]>>
                     /\ (~HasParts(e) /\ e.escalate /\ e.error_message = None)
                          => t = <<"Agent escalated: ", "No specific message.">>
                     /\ (~HasParts(e) /\ ~e.escalate)
                          => t = <<"Agent did not produce a final response.">>

C10_Witness ==
    /\ pc = "print"
    /\ Len(events) = 2
    /\ ~events[1].final
    /\ events[2].final
    /\ events[2].content = Some(<<"hello", "world">>)
    /\ events[2].escalate
    /\ events[2].error_message = Some("boom")
    /\ final_response_text = Some(<<"hello">>)

====
